---- MODULE Spec2Model ----
(***************************************************************************)
(* Language-item collection of librustc (middle/lang_items.rs).            *)
(*                                                                         *)
(* The model follows collect_language_items: a LanguageItemCollector is    *)
(* built with an empty LanguageItems table, the local crate is walked      *)
(* (visit_item on every item, nested items included), the lang items of    *)
(* every external crate are read from the crate store, the session aborts  *)
(* if an error was reported, and otherwise the table is handed to the      *)
(* later passes, which query it with require and to_builtin_kind.          *)
(*                                                                         *)
(* Options are sequences of length at most one: None is <<>> and Some(x)   *)
(* is <<x>>.  A formatted message is the sequence of its pieces, the       *)
(* quotation marks around the item name left out.                          *)
(***************************************************************************)
EXTENDS Integers, Sequences, FiniteSets, TLC

\* ------------------------------------------------------------------ bounds
\* Items in the local crate.
MaxItems == 2
\* Lang-item bindings recorded in the crate store, over all external crates.
MaxLang == 2
\* Attributes on one item.
MaxAttrs == 2
\* Largest index item_name is asked for.
MaxIndex == 60

\* ------------------------------------------------------- program constants
\* Number of slots of LanguageItems.items.
NumItems == 51
\* ast::LOCAL_CRATE, the crate number local_def gives to an item.
LOCAL_CRATE == 0

\* The LangItem enum, cast to uint.
FreezeTraitLangItem == 0
SendTraitLangItem == 1
SizedTraitLangItem == 2
AddTraitLangItem == 4
SubTraitLangItem == 6

None == << >>
Some(x) == << x >>

\* ast::DefId
DefId(c, n) == [crate |-> c, node |-> n]

\* ast_util::local_def
local_def(id) == DefId(LOCAL_CRATE, id)

\* ------------------------------------------------------------- the catalog
\* item_name without the arm of the item added last.
item_name_no_type_id(index) ==
    CASE index = 0 -> "freeze"
      [] index = 1 -> "send"
      [] index = 2 -> "sized"
      [] index = 3 -> "drop"
      [] index = 4 -> "add"
      [] index = 5 -> "add_assign"
      [] index = 6 -> "sub"
      [] index = 7 -> "sub_assign"
      [] index = 8 -> "mul"
      [] index = 9 -> "mul_assign"
      [] index = 10 -> "div"
      [] index = 11 -> "div_assign"
      [] index = 12 -> "rem"
      [] index = 13 -> "rem_assign"
      [] index = 14 -> "neg"
      [] index = 15 -> "not"
      [] index = 16 -> "bitxor"
      [] index = 17 -> "bitxor_assign"
      [] index = 18 -> "bitand"
      [] index = 19 -> "bitand_assign"
      [] index = 20 -> "bitor"
      [] index = 21 -> "bitor_assign"
      [] index = 22 -> "shl"
      [] index = 23 -> "shl_assign"
      [] index = 24 -> "shr"
      [] index = 25 -> "shr_assign"
      [] index = 26 -> "index"
      [] index = 27 -> "eq"
      [] index = 28 -> "ord"
      [] index = 29 -> "str_eq"
      [] index = 30 -> "uniq_str_eq"
      [] index = 31 -> "fail_"
      [] index = 32 -> "fail_bounds_check"
      [] index = 33 -> "exchange_malloc"
      [] index = 34 -> "closure_exchange_malloc"
      [] index = 35 -> "exchange_free"
      [] index = 36 -> "malloc"
      [] index = 37 -> "free"
      [] index = 38 -> "borrow_as_imm"
      [] index = 39 -> "borrow_as_mut"
      [] index = 40 -> "return_to_mut"
      [] index = 41 -> "check_not_borrowed"
      [] index = 42 -> "strdup_uniq"
      [] index = 43 -> "record_borrow"
      [] index = 44 -> "unrecord_borrow"
      [] index = 45 -> "start"
      [] index = 46 -> "ty_desc"
      [] index = 47 -> "ty_visitor"
      [] index = 48 -> "opaque"
      [] index = 49 -> "event_loop_factory"
      [] OTHER -> "???"

\* item_name with the name of fail_ misspelt.
item_name_fail(index) ==
    CASE index = 0 -> "freeze"
      [] index = 1 -> "send"
      [] index = 2 -> "sized"
      [] index = 3 -> "drop"
      [] index = 4 -> "add"
      [] index = 5 -> "add_assign"
      [] index = 6 -> "sub"
      [] index = 7 -> "sub_assign"
      [] index = 8 -> "mul"
      [] index = 9 -> "mul_assign"
      [] index = 10 -> "div"
      [] index = 11 -> "div_assign"
      [] index = 12 -> "rem"
      [] index = 13 -> "rem_assign"
      [] index = 14 -> "neg"
      [] index = 15 -> "not"
      [] index = 16 -> "bitxor"
      [] index = 17 -> "bitxor_assign"
      [] index = 18 -> "bitand"
      [] index = 19 -> "bitand_assign"
      [] index = 20 -> "bitor"
      [] index = 21 -> "bitor_assign"
      [] index = 22 -> "shl"
      [] index = 23 -> "shl_assign"
      [] index = 24 -> "shr"
      [] index = 25 -> "shr_assign"
      [] index = 26 -> "index"
      [] index = 27 -> "eq"
      [] index = 28 -> "ord"
      [] index = 29 -> "str_eq"
      [] index = 30 -> "uniq_str_eq"
      [] index = 31 -> "fail"
      [] index = 32 -> "fail_bounds_check"
      [] index = 33 -> "exchange_malloc"
      [] index = 34 -> "closure_exchange_malloc"
      [] index = 35 -> "exchange_free"
      [] index = 36 -> "malloc"
      [] index = 37 -> "free"
      [] index = 38 -> "borrow_as_imm"
      [] index = 39 -> "borrow_as_mut"
      [] index = 40 -> "return_to_mut"
      [] index = 41 -> "check_not_borrowed"
      [] index = 42 -> "strdup_uniq"
      [] index = 43 -> "record_borrow"
      [] index = 44 -> "unrecord_borrow"
      [] index = 45 -> "start"
      [] index = 46 -> "ty_desc"
      [] index = 47 -> "ty_visitor"
      [] index = 48 -> "opaque"
      [] index = 49 -> "event_loop_factory"
      [] index = 50 -> "type_id"
      [] OTHER -> "???"

\* LanguageItems::item_name
item_name(index) ==
    CASE index = 0 -> "freeze"
      [] index = 1 -> "send"
      [] index = 2 -> "sized"
      [] index = 3 -> "drop"
      [] index = 4 -> "add"
      [] index = 5 -> "add_assign"
      [] index = 6 -> "sub"
      [] index = 7 -> "sub_assign"
      [] index = 8 -> "mul"
      [] index = 9 -> "mul_assign"
      [] index = 10 -> "div"
      [] index = 11 -> "div_assign"
      [] index = 12 -> "rem"
      [] index = 13 -> "rem_assign"
      [] index = 14 -> "neg"
      [] index = 15 -> "not"
      [] index = 16 -> "bitxor"
      [] index = 17 -> "bitxor_assign"
      [] index = 18 -> "bitand"
      [] index = 19 -> "bitand_assign"
      [] index = 20 -> "bitor"
      [] index = 21 -> "bitor_assign"
      [] index = 22 -> "shl"
      [] index = 23 -> "shl_assign"
      [] index = 24 -> "shr"
      [] index = 25 -> "shr_assign"
      [] index = 26 -> "index"
      [] index = 27 -> "eq"
      [] index = 28 -> "ord"
      [] index = 29 -> "str_eq"
      [] index = 30 -> "uniq_str_eq"
      [] index = 31 -> "fail_"
      [] index = 32 -> "fail_bounds_check"
      [] index = 33 -> "exchange_malloc"
      [] index = 34 -> "closure_exchange_malloc"
      [] index = 35 -> "exchange_free"
      [] index = 36 -> "malloc"
      [] index = 37 -> "free"
      [] index = 38 -> "borrow_as_imm"
      [] index = 39 -> "borrow_as_mut"
      [] index = 40 -> "return_to_mut"
      [] index = 41 -> "check_not_borrowed"
      [] index = 42 -> "strdup_uniq"
      [] index = 43 -> "record_borrow"
      [] index = 44 -> "unrecord_borrow"
      [] index = 45 -> "start"
      [] index = 46 -> "ty_desc"
      [] index = 47 -> "ty_visitor"
      [] index = 48 -> "opaque"
      [] index = 49 -> "event_loop_factory"
      [] index = 50 -> "type_id"
      [] OTHER -> "???"

\* LanguageItemCollector::new, the item_refs map it fills
item_refs ==
    ("freeze" :> FreezeTraitLangItem) @@ ("send" :> SendTraitLangItem) @@
    ("sized" :> SizedTraitLangItem) @@ ("drop" :> 3) @@
    ("add" :> AddTraitLangItem) @@ ("add_assign" :> 5) @@
    ("sub" :> SubTraitLangItem) @@ ("sub_assign" :> 7) @@
    ("mul" :> 8) @@ ("mul_assign" :> 9) @@
    ("div" :> 10) @@ ("div_assign" :> 11) @@
    ("rem" :> 12) @@ ("rem_assign" :> 13) @@
    ("neg" :> 14) @@ ("not" :> 15) @@
    ("bitxor" :> 16) @@ ("bitxor_assign" :> 17) @@
    ("bitand" :> 18) @@ ("bitand_assign" :> 19) @@
    ("bitor" :> 20) @@ ("bitor_assign" :> 21) @@
    ("shl" :> 22) @@ ("shl_assign" :> 23) @@
    ("shr" :> 24) @@ ("shr_assign" :> 25) @@
    ("index" :> 26) @@
    ("eq" :> 27) @@ ("ord" :> 28) @@
    ("str_eq" :> 29) @@ ("uniq_str_eq" :> 30) @@
    ("fail_" :> 31) @@ ("fail_bounds_check" :> 32) @@
    ("exchange_malloc" :> 33) @@ ("closure_exchange_malloc" :> 34) @@
    ("exchange_free" :> 35) @@ ("malloc" :> 36) @@ ("free" :> 37) @@
    ("borrow_as_imm" :> 38) @@ ("borrow_as_mut" :> 39) @@
    ("return_to_mut" :> 40) @@ ("check_not_borrowed" :> 41) @@
    ("strdup_uniq" :> 42) @@ ("record_borrow" :> 43) @@
    ("unrecord_borrow" :> 44) @@ ("start" :> 45) @@
    ("ty_desc" :> 46) @@ ("ty_visitor" :> 47) @@ ("opaque" :> 48) @@
    ("event_loop_factory" :> 49) @@ ("type_id" :> 50)

\* The lookup falling back on the first item for a name that is not a key.
find_equiv_or_first(value) ==
    IF value \in DOMAIN item_refs THEN Some(item_refs[value]) ELSE Some(0)

\* item_refs.find_equiv(&value).map(|x| *x)
find_equiv(value) ==
    IF value \in DOMAIN item_refs THEN Some(item_refs[value]) ELSE None

\* ------------------------------------------------------------ the registry
\* LanguageItems::new
LanguageItems_new == [i \in 0..(NumItems - 1) |-> None]

\* require with the error naming the item after the one asked for.
require_next_name(its, it) ==
    IF its[it] # None
    THEN [ok |-> TRUE, id |-> its[it][1], msg |-> << >>]
    ELSE [ok |-> FALSE, id |-> DefId(0, 0),
          msg |-> << "requires ", item_name(it + 1), " lang_item" >>]

\* LanguageItems::require
require(its, it) ==
    IF its[it] # None
    THEN [ok |-> TRUE, id |-> its[it][1], msg |-> << >>]
    ELSE [ok |-> FALSE, id |-> DefId(0, 0),
          msg |-> << "requires ", item_name(it), " lang_item" >>]

\* freeze_trait reading the slot of the accessor below it.
freeze_trait_send_slot(its) == its[SendTraitLangItem]

\* LanguageItems::freeze_trait
freeze_trait(its) == its[FreezeTraitLangItem]
\* LanguageItems::send_trait
send_trait(its) == its[SendTraitLangItem]
\* LanguageItems::sized_trait
sized_trait(its) == its[SizedTraitLangItem]

\* to_builtin_kind comparing with the three slots in the reverse order.
to_builtin_kind_reversed(its, id) ==
    IF Some(id) = sized_trait(its) THEN Some("BoundSized")
    ELSE IF Some(id) = send_trait(its) THEN Some("BoundSend")
    ELSE IF Some(id) = freeze_trait(its) THEN Some("BoundFreeze")
    ELSE None

\* to_builtin_kind with the send and sized answers exchanged.
to_builtin_kind_swapped(its, id) ==
    IF Some(id) = freeze_trait(its) THEN Some("BoundFreeze")
    ELSE IF Some(id) = send_trait(its) THEN Some("BoundSized")
    ELSE IF Some(id) = sized_trait(its) THEN Some("BoundSend")
    ELSE None

\* LanguageItems::to_builtin_kind
to_builtin_kind(its, id) ==
    IF Some(id) = freeze_trait(its) THEN Some("BoundFreeze")
    ELSE IF Some(id) = send_trait(its) THEN Some("BoundSend")
    ELSE IF Some(id) = sized_trait(its) THEN Some("BoundSized")
    ELSE None

\* ----------------------------------------------------------- the session
\* Session::err: the message is recorded and the call returns.
session_err(errs, msg) == Append(errs, msg)

\* ---------------------------------------------------------- the collector
\* collect_item that leaves an occupied slot as it is.
collect_item_keep_original(its, errs, item_index, item_def_id) ==
    LET reported ==
            IF its[item_index] # None /\ its[item_index][1] # item_def_id
            THEN session_err(errs, << "duplicate entry for ",
                                      item_name(item_index) >>)
            ELSE errs
    IN  [items |-> IF its[item_index] = None
                   THEN [its EXCEPT ![item_index] = Some(item_def_id)]
                   ELSE its,
         errs  |-> reported]

\* collect_item with the guard of the duplicate arm inverted.
collect_item_equal_guard(its, errs, item_index, item_def_id) ==
    LET reported ==
            IF its[item_index] # None /\ its[item_index][1] = item_def_id
            THEN session_err(errs, << "duplicate entry for ",
                                      item_name(item_index) >>)
            ELSE errs
    IN  [items |-> [its EXCEPT ![item_index] = Some(item_def_id)],
         errs  |-> reported]

\* collect_item with the duplicate arm lacking its guard.
collect_item_no_guard(its, errs, item_index, item_def_id) ==
    LET reported ==
            IF its[item_index] # None
            THEN session_err(errs, << "duplicate entry for ",
                                      item_name(item_index) >>)
            ELSE errs
    IN  [items |-> [its EXCEPT ![item_index] = Some(item_def_id)],
         errs  |-> reported]

\* collect_item that builds the table anew around the slot it sets.
collect_item_fresh_table(its, errs, item_index, item_def_id) ==
    LET reported ==
            IF its[item_index] # None /\ its[item_index][1] # item_def_id
            THEN session_err(errs, << "duplicate entry for ",
                                      item_name(item_index) >>)
            ELSE errs
    IN  [items |-> [i \in DOMAIN its |->
                      IF i = item_index THEN Some(item_def_id) ELSE None],
         errs  |-> reported]

\* collect_item that reports nothing.
collect_item_silent(its, errs, item_index, item_def_id) ==
    [items |-> [its EXCEPT ![item_index] = Some(item_def_id)],
     errs  |-> errs]

\* LanguageItemCollector::collect_item, on the table and the session's
\* recorded errors.
collect_item(its, errs, item_index, item_def_id) ==
    LET reported ==
            IF its[item_index] # None /\ its[item_index][1] # item_def_id
            THEN session_err(errs, << "duplicate entry for ",
                                      item_name(item_index) >>)
            ELSE errs
    IN  [items |-> [its EXCEPT ![item_index] = Some(item_def_id)],
         errs  |-> reported]

\* Attribute::name_str_pair: a name-value attribute gives its pair, any
\* other attribute gives None.
name_str_pair(attribute) ==
    IF attribute.kind = "NameValue"
    THEN Some(<< attribute.key, attribute.value >>)
    ELSE None

\* extract that goes on scanning after a match, so that the last one wins.
RECURSIVE extract_last(_)
extract_last(attrs) ==
    IF attrs = << >> THEN None
    ELSE LET p == name_str_pair(Head(attrs))
             rest == extract_last(Tail(attrs))
         IN  IF p # None /\ "lang" = p[1][1] /\ rest = None
             THEN Some(p[1][2])
             ELSE rest

\* extract
RECURSIVE extract(_)
extract(attrs) ==
    IF attrs = << >> THEN None
    ELSE LET p == name_str_pair(Head(attrs))
         IN  IF p # None /\ "lang" = p[1][1]
             THEN Some(p[1][2])
             ELSE extract(Tail(attrs))

\* abort_if_errors of the session: it does not return when an error was
\* reported.
abort_if_errors(errs) == errs # << >>

\* ------------------------------------------------------------------ inputs
\* The attributes an item of the local crate may carry.
AttrPool ==
    { [kind |-> "Word", key |-> "inline", value |-> ""],
      [kind |-> "NameValue", key |-> "doc", value |-> "add"],
      [kind |-> "NameValue", key |-> "lang", value |-> "add"],
      [kind |-> "NameValue", key |-> "lang", value |-> "freeze"],
      [kind |-> "NameValue", key |-> "lang", value |-> "bogus"] }

AttrSeqs == UNION { [1..n -> AttrPool] : n \in 0..MaxAttrs }

\* The crate numbers of the external crates in the crate store.
ExtCrates == { 1, 2 }

\* The node ids an external crate may have recorded for a lang item.
ExtNodes == { 1 }

\* The item indices an external crate may have recorded.
ExtKinds == { FreezeTraitLangItem, SendTraitLangItem, SizedTraitLangItem }

\* The items a later pass asks for.
QueryKinds == { FreezeTraitLangItem, AddTraitLangItem, SubTraitLangItem }

\* Every DefId a run can produce.
AllIds == { local_def(n) : n \in 1..MaxItems } \cup
          { DefId(c, n) : c \in ExtCrates, n \in ExtNodes }

\* The marker of an item: the value of the earliest name-value attribute
\* whose key is "lang", None when there is none.
LangPositions(attrs) ==
    { i \in 1..Len(attrs) :
        attrs[i].kind = "NameValue" /\ attrs[i].key = "lang" }

Marker(attrs) ==
    IF LangPositions(attrs) = {} THEN None
    ELSE LET first == CHOOSE i \in LangPositions(attrs) :
                          \A j \in LangPositions(attrs) : i <= j
         IN  Some(attrs[first].value)

\* ------------------------------------------------------------------- state
VARIABLES
    pc,       \* where collect_language_items is
    items,    \* collector.items.items
    errs,     \* the errors the session has recorded
    nitems,   \* number of items of the local crate
    nlang,    \* number of lang items recorded in the crate store
    depth,    \* nesting depth of the visitor in the local crate
    item,     \* Some(the item visit_item is running on)
    cnum,     \* crate number iter_crate_data is at
    visited,  \* the items visited so far: id and marker
    log,      \* the collect_item calls so far
    result    \* Some(the last query of a later pass)

vars == << pc, items, errs, nitems, nlang, depth, item, cnum, visited, log,
           result >>

\* The record kept of one collect_item call: its arguments, the slot as it
\* was found, and the number of errors recorded before it.
Call(item_index, item_def_id) ==
    [index |-> item_index, def_id |-> item_def_id,
     original |-> items[item_index], before |-> Len(errs)]

\* LanguageItemCollector::new; collect_language_items up to collect
Init ==
    /\ pc = "local"
    /\ items = LanguageItems_new
    /\ errs = << >>
    /\ nitems \in 0..MaxItems
    /\ nlang \in 0..MaxLang
    /\ depth = 0
    /\ item = None
    /\ cnum = 0
    /\ visited = << >>
    /\ log = << >>
    /\ result = None

\* LanguageItemVisitor::visit_item, up to its call of walk_item
VisitItem ==
    /\ pc = "local"
    /\ Len(visited) < nitems
    /\ \E attrs \in AttrSeqs :
         LET id == Len(visited) + 1
             value == extract(attrs)
             item_index == IF value # None THEN find_equiv(value[1]) ELSE None
         IN  /\ item' = Some([id |-> id, attrs |-> attrs])
             /\ visited' = Append(visited, [id |-> id, tag |-> Marker(attrs)])
             /\ IF item_index # None
                THEN LET r == collect_item(items, errs, item_index[1],
                                           local_def(id))
                     IN  /\ items' = r.items
                         /\ errs' = r.errs
                         /\ log' = Append(log, Call(item_index[1],
                                                    local_def(id)))
                ELSE UNCHANGED << items, errs, log >>
    /\ depth' = depth + 1
    /\ UNCHANGED << pc, nitems, nlang, cnum, result >>

\* visit::walk_item returns: the items nested in the current one are done
WalkItemReturn ==
    /\ pc = "local"
    /\ depth > 0
    /\ depth' = depth - 1
    /\ item' = None
    /\ UNCHANGED << pc, items, errs, nitems, nlang, cnum, visited, log,
                    result >>

\* collect_local_language_items returns: walk_crate has visited every item
CollectLocalReturn ==
    /\ pc = "local"
    /\ depth = 0
    /\ Len(visited) = nitems
    /\ pc' = "external"
    /\ UNCHANGED << items, errs, nitems, nlang, depth, item, cnum, visited,
                    log, result >>

\* The collect_item calls made for external crates so far.
ExternalCalls == { i \in 1..Len(log) : log[i].def_id.crate # LOCAL_CRATE }

\* iter_crate_data goes on to the next crate of the crate store
IterCrateData ==
    /\ pc = "external"
    /\ cnum + 1 \in ExtCrates
    /\ cnum' = cnum + 1
    /\ UNCHANGED << pc, items, errs, nitems, nlang, depth, item, visited,
                    log, result >>

\* The closure collect_external_language_items gives to each_lang_item
EachLangItem ==
    /\ pc = "external"
    /\ cnum >= 1
    /\ Cardinality(ExternalCalls) < nlang
    /\ \E node_id \in ExtNodes, item_index \in ExtKinds :
         LET def_id == DefId(cnum, node_id)
             r == collect_item(items, errs, item_index, def_id)
         IN  /\ items' = r.items
             /\ errs' = r.errs
             /\ log' = Append(log, Call(item_index, def_id))
    /\ UNCHANGED << pc, nitems, nlang, depth, item, cnum, visited, result >>

\* collect_external_language_items and collect return
CollectReturn ==
    /\ pc = "external"
    /\ Cardinality(ExternalCalls) = nlang
    /\ pc' = "check"
    /\ UNCHANGED << items, errs, nitems, nlang, depth, item, cnum, visited,
                    log, result >>

\* collect_language_items: session.abort_if_errors(), then items is returned
AbortIfErrors ==
    /\ pc = "check"
    /\ pc' = IF abort_if_errors(errs) THEN "aborted" ELSE "returned"
    /\ UNCHANGED << items, errs, nitems, nlang, depth, item, cnum, visited,
                    log, result >>

\* A later pass calls require on the returned table
Require ==
    /\ pc = "returned"
    /\ \E it \in QueryKinds :
         result' = Some([op |-> "require", it |-> it,
                         res |-> require(items, it)])
    /\ UNCHANGED << pc, items, errs, nitems, nlang, depth, item, cnum,
                    visited, log >>

\* A later pass calls to_builtin_kind on the returned table
ToBuiltinKind ==
    /\ pc = "returned"
    /\ \E id \in AllIds :
         result' = Some([op |-> "to_builtin_kind", id |-> id,
                         res |-> to_builtin_kind(items, id)])
    /\ UNCHANGED << pc, items, errs, nitems, nlang, depth, item, cnum,
                    visited, log >>

Next ==
    \/ VisitItem
    \/ WalkItemReturn
    \/ CollectLocalReturn
    \/ IterCrateData
    \/ EachLangItem
    \/ CollectReturn
    \/ AbortIfErrors
    \/ Require
    \/ ToBuiltinKind

Spec == Init /\ [][Next]_vars

\* ------------------------------------------------- the catalog on its own
\* The names the item_refs map is asked for: every key of it, and names that
\* are not lang items.
NamePool == DOMAIN item_refs \cup { "???", "bogus", "lang", "Freeze" }

\* The collector is built; the static tables are asked before any item is
\* collected.
CatalogInit ==
    /\ pc = "catalog"
    /\ items = LanguageItems_new
    /\ errs = << >>
    /\ nitems = 0
    /\ nlang = 0
    /\ depth = 0
    /\ item = None
    /\ cnum = 0
    /\ visited = << >>
    /\ log = << >>
    /\ result = None

\* A caller asks LanguageItems::item_name for the name of an index
ItemName ==
    /\ pc = "catalog"
    /\ \E index \in 0..MaxIndex :
         result' = Some([op |-> "item_name", index |-> index,
                         res |-> item_name(index)])
    /\ UNCHANGED << pc, items, errs, nitems, nlang, depth, item, cnum,
                    visited, log >>

\* visit_item looks the extracted value up in item_refs
FindEquiv ==
    /\ pc = "catalog"
    /\ \E value \in NamePool :
         result' = Some([op |-> "find_equiv", value |-> value,
                         res |-> find_equiv(value)])
    /\ UNCHANGED << pc, items, errs, nitems, nlang, depth, item, cnum,
                    visited, log >>

CatalogNext ==
    \/ ItemName
    \/ FindEquiv

CatalogSpec == CatalogInit /\ [][CatalogNext]_vars

TypeOK ==
    /\ pc \in { "local", "external", "check", "returned", "aborted",
               "catalog" }
    /\ DOMAIN items = 0..(NumItems - 1)
    /\ depth \in 0..MaxItems
    /\ cnum \in { 0 } \cup ExtCrates
    /\ Len(visited) <= nitems

\* ----------------------------------------------------- reading the record
Kinds == 0..(NumItems - 1)

\* The positions in log of the collect_item calls for one item index.
CallsFor(k) == { i \in 1..Len(log) : log[i].index = k }

FirstCallFor(k) == CHOOSE i \in CallsFor(k) : \A j \in CallsFor(k) : i <= j

LastCallFor(k) == CHOOSE i \in CallsFor(k) : \A j \in CallsFor(k) : j <= i

\* The errors recorded during the i-th collect_item call.
Emitted(i) ==
    SubSeq(errs, log[i].before + 1,
           IF i < Len(log) THEN log[i + 1].before ELSE Len(errs))

\* The i-th call found the slot holding another id.
Conflicting(i) ==
    log[i].original # None /\ log[i].original # Some(log[i].def_id)

\* An error message that names item index k.
NamesKind(msg, k) ==
    /\ Len(msg) = 2
    /\ msg[1] = "duplicate entry for "
    /\ msg[2] \in DOMAIN item_refs
    /\ item_refs[msg[2]] = k

\* ------------------------------------------------------------------ claims

C2_OneDuplicateError ==
    \A k \in Kinds :
        CallsFor(k) # {} =>
            LET i == FirstCallFor(k)
            IN  /\ log[i].original = None
                /\ Emitted(i) = << >>
                /\ \A j \in CallsFor(k) :
                     ( /\ j > i
                       /\ \A m \in CallsFor(k) : m <= i \/ m >= j
                       /\ log[j].def_id # log[i].def_id )
                     => /\ Len(Emitted(j)) = 1
                        /\ NamesKind(Emitted(j)[1], k)

\* C2 witness: a second insert with a different id has been made and the
\* session holds the one error.
C2_Witness ==
    \E k \in Kinds :
        /\ Cardinality(CallsFor(k)) = 2
        /\ log[FirstCallFor(k)].def_id # log[LastCallFor(k)].def_id
        /\ Len(errs) = 1

\* The item indices of the hypothetical inserts of C3: those a run inserts
\* for, and sub, whose slot like every other one stays empty.
InsertKinds == ExtKinds \cup { AddTraitLangItem, SubTraitLangItem }

\* C3: from every reachable table, inserting (k, d) a second time changes
\* neither the table nor the recorded errors, and a call that repeats the
\* call before it recorded no error.
C3_InsertIdempotent ==
    /\ \A k \in InsertKinds, d \in AllIds :
         LET once == collect_item(items, errs, k, d)
             twice == collect_item(once.items, once.errs, k, d)
         IN  /\ twice.items = once.items
             /\ twice.errs = once.errs
    /\ \A i \in 2..Len(log) :
         ( log[i].index = log[i - 1].index /\ log[i].def_id = log[i - 1].def_id )
         => /\ Emitted(i) = << >>
            /\ log[i].original = Some(log[i].def_id)

\* C3 witness: the same (index, id) has been inserted twice in a row into a
\* slot that held another id before.
C3_Witness ==
    \E i \in 2..Len(log) :
        /\ log[i].index = log[i - 1].index
        /\ log[i].def_id = log[i - 1].def_id
        /\ Conflicting(i - 1)
        /\ items[log[i].index] = Some(log[i].def_id)

\* The local declarations that claimed item index k.
LocalCallsFor(k) == { i \in CallsFor(k) : log[i].def_id.crate = LOCAL_CRATE }

C5_ReturnsOnlyWithoutDuplicates ==
    pc \in { "returned", "aborted" } =>
        ( pc = "returned" <=> \A i \in 1..Len(log) : ~Conflicting(i) )

\* C5 witness: the run was aborted after a duplicate.
C5_Witness ==
    /\ pc = "aborted"
    /\ \E i \in 1..Len(log) : Conflicting(i)

\* C6: a duplicate does not end the passes: every conflicting insert has its
\* error recorded, the passes process every item of the crate and every
\* binding of the crate store before the check, and the run is aborted only
\* by the check after both passes.
C6_DuplicatesDeferred ==
    /\ [](Len(errs) = Cardinality({ i \in 1..Len(log) : Conflicting(i) }))
    /\ [](pc \in { "check", "returned", "aborted" } =>
             /\ Len(visited) = nitems
             /\ Cardinality(ExternalCalls) = nlang)
    /\ [][ /\ (Len(errs') > Len(errs) => pc' = pc)
           /\ (pc' = "aborted" => pc = "check") ]_vars

\* C6 witness: a duplicate was found in the local pass, more inserts and
\* another duplicate followed, and the run was aborted at the check.
C6_Witness ==
    /\ pc = "aborted"
    /\ Len(errs) >= 2
    /\ \E i \in 1..Len(log) :
         /\ Conflicting(i)
         /\ log[i].def_id.crate = LOCAL_CRATE
         /\ \E j \in ExternalCalls : Conflicting(j)

\* C7: in a table nothing was inserted into, every slot is empty and require
\* fails for every item with a message that names that item.
C7_FreshTableEmpty ==
    log = << >> =>
        \A k \in Kinds :
            /\ items[k] = None
            /\ ~require(items, k).ok
            /\ Len(require(items, k).msg) = 3
            /\ require(items, k).msg[2] \in DOMAIN item_refs
            /\ item_refs[require(items, k).msg[2]] = k

\* C7 witness: a later pass required an item of a table nothing was inserted
\* into, and got the error.
C7_Witness ==
    /\ log = << >>
    /\ result # None
    /\ result[1].op = "require"
    /\ ~result[1].res.ok

\* C8: to_builtin_kind gives BoundFreeze only for the id in the freeze slot,
\* BoundSend only for the id in the send slot, BoundSized only for the id in
\* the sized slot, and None for every id in none of the three slots.
C8_BuiltinKindOnlyForBound ==
    \A id \in AllIds :
        LET r == to_builtin_kind(items, id)
        IN  /\ r = Some("BoundFreeze") => items[FreezeTraitLangItem] = Some(id)
            /\ r = Some("BoundSend") => items[SendTraitLangItem] = Some(id)
            /\ r = Some("BoundSized") => items[SizedTraitLangItem] = Some(id)
            /\ ( /\ items[FreezeTraitLangItem] # Some(id)
                 /\ items[SendTraitLangItem] # Some(id)
                 /\ items[SizedTraitLangItem] # Some(id) ) => r = None
            /\ r \in { None, Some("BoundFreeze"), Some("BoundSend"),
                       Some("BoundSized") }

\* C8 witness: a later pass asked for the kind of the id bound to add, with
\* the send slot bound to another id, and got None.
C8_Witness ==
    /\ result # None
    /\ result[1].op = "to_builtin_kind"
    /\ items[AddTraitLangItem] = Some(result[1].id)
    /\ items[SendTraitLangItem] # None
    /\ items[SendTraitLangItem] # Some(result[1].id)
    /\ result[1].res = None

\* C9: extract gives the value of the earliest attribute whose key is "lang",
\* whatever follows it, and None exactly when no attribute has that key.
C9_ExtractFirstMatch ==
    item # None =>
        /\ extract(item[1].attrs) = Marker(item[1].attrs)
        /\ (extract(item[1].attrs) = None
              <=> \A i \in 1..Len(item[1].attrs) :
                     name_str_pair(item[1].attrs[i]) = None
                     \/ name_str_pair(item[1].attrs[i])[1][1] # "lang")

\* C9 witness: the item tagged lang="freeze" then lang="add" was visited and
\* bound to freeze, not to add.
C9_Witness ==
    /\ item # None
    /\ Len(item[1].attrs) = 2
    /\ item[1].attrs[1].key = "lang" /\ item[1].attrs[1].value = "freeze"
    /\ item[1].attrs[2].key = "lang" /\ item[1].attrs[2].value = "add"
    /\ items[FreezeTraitLangItem] = Some(local_def(item[1].id))
    /\ items[AddTraitLangItem] = None

\* The visited items whose marker is the given name.
Tagged(name) == { i \in 1..Len(visited) : visited[i].tag = Some(name) }

\* The crate of the end-to-end case: one item tagged add, one tagged freeze,
\* no other item with the name of a lang item, no binding in the crate store.
AddFreezeCrate ==
    /\ nlang = 0
    /\ Len(visited) = nitems
    /\ Cardinality(Tagged("add")) = 1
    /\ Cardinality(Tagged("freeze")) = 1
    /\ \A i \in 1..Len(visited) :
         i \in Tagged("add") \/ i \in Tagged("freeze")
         \/ visited[i].tag = None \/ visited[i].tag[1] \notin DOMAIN item_refs

\* C10: for that crate the collection is not aborted, and in the returned
\* table require gives the two items' local ids for add and freeze and fails
\* for sub, and to_builtin_kind gives None for the add item and BoundFreeze
\* for the freeze item.
C10_EndToEnd ==
    AddFreezeCrate =>
        /\ pc # "aborted"
        /\ pc = "returned" =>
             LET add_id == local_def(visited[CHOOSE i \in Tagged("add") : TRUE].id)
                 freeze_id == local_def(visited[CHOOSE i \in Tagged("freeze") : TRUE].id)
             IN  /\ require(items, AddTraitLangItem).ok
                 /\ require(items, AddTraitLangItem).id = add_id
                 /\ require(items, FreezeTraitLangItem).ok
                 /\ require(items, FreezeTraitLangItem).id = freeze_id
                 /\ ~require(items, SubTraitLangItem).ok
                 /\ to_builtin_kind(items, add_id) = None
                 /\ to_builtin_kind(items, freeze_id) = Some("BoundFreeze")

\* C10 witness: the table of such a crate was returned and the freeze item
\* asked for its kind.
C10_Witness ==
    /\ AddFreezeCrate
    /\ pc = "returned"
    /\ result # None
    /\ result[1].op = "to_builtin_kind"
    /\ result[1].res = Some("BoundFreeze")

\* C11: item_name gives for every index up to 50 a name that is not the
\* placeholder, drop for 3 and eq for 27, and gives the placeholder "???" for
\* every index from 51 on; no two indices up to 50 get the same name.
C11_ItemNameTotal ==
    /\ \A i \in 0..MaxIndex :
         /\ (i <= NumItems - 1) => item_name(i) # "???"
         /\ (i >= NumItems) => item_name(i) = "???"
    /\ \A i \in Kinds : \A j \in Kinds : item_name(i) = item_name(j) => i = j
    /\ item_name(3) = "drop"
    /\ item_name(27) = "eq"
    /\ (result # None /\ result[1].op = "item_name") =>
         /\ (result[1].index <= NumItems - 1) => result[1].res # "???"
         /\ (result[1].index >= NumItems) => result[1].res = "???"

\* C11 witness: item_name was asked for an index past the last item and gave
\* the placeholder.
C11_Witness ==
    /\ result # None
    /\ result[1].op = "item_name"
    /\ result[1].index > NumItems
    /\ result[1].res = "???"

\* C12: item_refs has exactly 51 keys, maps the name of every index up to 50
\* to that index, and the name of the index it gives for a key is that key;
\* a lookup finds an index exactly for the keys.
C12_NameIndexBijection ==
    /\ Cardinality(DOMAIN item_refs) = NumItems
    /\ \A i \in Kinds :
         /\ item_name(i) \in DOMAIN item_refs
         /\ item_refs[item_name(i)] = i
    /\ \A n \in DOMAIN item_refs :
         /\ item_refs[n] \in Kinds
         /\ item_name(item_refs[n]) = n
    /\ (result # None /\ result[1].op = "find_equiv") =>
         IF result[1].res = None
         THEN \A i \in Kinds : item_name(i) # result[1].value
         ELSE item_name(result[1].res[1]) = result[1].value

\* C12 witness: the name of the last item was looked up and gave index 50.
C12_Witness ==
    /\ result # None
    /\ result[1].op = "find_equiv"
    /\ result[1].value = "type_id"
    /\ result[1].res = Some(NumItems - 1)

\* The names of the 51 items, as item_name gives them.
CanonicalNames == { item_name(i) : i \in Kinds }

\* The attributes carry no "lang" attribute, or the earliest one carries a
\* value that is not the name of an item.
NotALangItem(attrs) ==
    Marker(attrs) = None \/ Marker(attrs)[1] \notin CanonicalNames

\* C13: a visit_item call on an item that has no "lang" attribute, or whose
\* earliest "lang" attribute does not carry the name of an item, leaves the
\* table and the recorded errors as they are and makes no collect_item call,
\* whatever a later "lang" attribute carries, and the visitor goes on into
\* the item.
C13_UnknownMarkerIgnored ==
    [][ ( /\ Len(visited') = Len(visited) + 1
          /\ item' # None
          /\ NotALangItem(item'[1].attrs) )
        => /\ items' = items
           /\ errs' = errs
           /\ log' = log
           /\ pc' = "local"
           /\ depth' = depth + 1 ]_vars

\* C13 witness: inside an item without attributes, an item tagged
\* lang="bogus" then lang="add" was visited, and the table is still empty.
C13_Witness ==
    /\ Len(visited) = 2
    /\ depth = 2
    /\ visited[1].tag = None
    /\ item # None
    /\ Len(item[1].attrs) = 2
    /\ item[1].attrs[1].key = "lang" /\ item[1].attrs[1].value = "bogus"
    /\ item[1].attrs[2].key = "lang" /\ item[1].attrs[2].value = "add"
    /\ items = LanguageItems_new
    /\ errs = << >>

\* The collect_item calls of a record made one after the other, from the
\* given table and errors.
RECURSIVE Replay(_, _, _)
Replay(calls, its, es) ==
    IF calls = << >> THEN [items |-> its, errs |-> es]
    ELSE LET r == collect_item(its, es, Head(calls).index, Head(calls).def_id)
         IN  Replay(Tail(calls), r.items, r.errs)

\* The number of collect_item calls of the local pass; they come first.
NLocal == Len(log) - Cardinality(ExternalCalls)

\* The record with the calls of the local pass in the order p.
Reordered(p) ==
    [i \in 1..Len(log) |-> IF i <= NLocal THEN log[p[i]] ELSE log[i]]

\* C14: the run is the replay of its calls, and visiting the tagged items of
\* the local crate in any other order gives the same number of errors, hence
\* the same outcome of abort_if_errors, and the same table whenever no error
\* is recorded.
C14_OrderIndependent ==
    pc \in { "local", "check" } =>
        /\ Replay(log, LanguageItems_new, << >>).items = items
        /\ Replay(log, LanguageItems_new, << >>).errs = errs
        /\ \A p \in Permutations(1..NLocal) :
             LET other == Replay(Reordered(p), LanguageItems_new, << >>)
             IN  /\ Len(other.errs) = Len(errs)
                 /\ abort_if_errors(other.errs) = abort_if_errors(errs)
                 /\ errs = << >> => other.items = items

\* C14 witness: both passes are over, two items of the local crate were
\* bound to different lang items and an external crate bound a third, with
\* no error.
C14_Witness ==
    /\ pc = "check"
    /\ NLocal = 2
    /\ log[1].index # log[2].index
    /\ ExternalCalls # {}
    /\ errs = << >>

\* C15: to_builtin_kind gives the first match in the order freeze, send,
\* sized: BoundFreeze for the id in the freeze slot whatever other slot holds
\* it, BoundSend for the id in the send slot and not in the freeze slot,
\* BoundSized for the id in the sized slot and in neither of the other two;
\* the answer a later pass got is the one the table it asked gives.
C15_BuiltinKindPriority ==
    /\ \A id \in AllIds :
         LET r == to_builtin_kind(items, id)
         IN  /\ items[FreezeTraitLangItem] = Some(id) => r = Some("BoundFreeze")
             /\ ( /\ items[FreezeTraitLangItem] # Some(id)
                  /\ items[SendTraitLangItem] = Some(id) ) => r = Some("BoundSend")
             /\ ( /\ items[FreezeTraitLangItem] # Some(id)
                  /\ items[SendTraitLangItem] # Some(id)
                  /\ items[SizedTraitLangItem] = Some(id) ) => r = Some("BoundSized")
    /\ (result # None /\ result[1].op = "to_builtin_kind") =>
         result[1].res = to_builtin_kind(items, result[1].id)

\* C15 witness: an external crate bound one id to send and to sized, and a
\* later pass asking for its kind got BoundSend.
C15_Witness ==
    /\ result # None
    /\ result[1].op = "to_builtin_kind"
    /\ result[1].id.crate # LOCAL_CRATE
    /\ items[SendTraitLangItem] = Some(result[1].id)
    /\ items[SizedTraitLangItem] = Some(result[1].id)
    /\ result[1].res = Some("BoundSend")

\* C16: a collect_item call leaves every slot but the one of its index as it
\* was, whether or not it recorded an error, and no step empties a slot.
C16_OnlyOwnSlotChanges ==
    [][ /\ (Len(log') = Len(log) + 1) =>
             \A j \in Kinds :
                 j # log'[Len(log')].index => items'[j] = items[j]
        /\ (Len(log') = Len(log)) => items' = items
        /\ \A j \in Kinds : items[j] # None => items'[j] # None ]_vars

\* C16 witness: a call that recorded a duplicate was made while another slot
\* was bound, and that slot is still bound to the same id.
C16_Witness ==
    \E i \in 2..Len(log) :
        /\ Conflicting(i)
        /\ i = Len(log)
        /\ \E m \in 1..(i - 1) :
             /\ log[m].index # log[i].index
             /\ items[log[m].index] = Some(log[m].def_id)

====
